---- MODULE Spec2Model ----
(***************************************************************************)
(* Model of the hostasis CLI: the `upload` and `feed update` commands, the *)
(* exported updateFeed function, and the helpers they use                  *)
(* (hexToBytes, bytesToHex, getAddressFromPrivateKey, fetchBatchDepth,     *)
(* fetchNextFeedIndex).                                                    *)
(*                                                                         *)
(* Strings are sequences of one-character strings, byte arrays are         *)
(* sequences of integers 0..255, and a JavaScript value is a record        *)
(* [t, s, n] tagged with its type.                                         *)
(***************************************************************************)
EXTENDS Integers, Sequences, FiniteSets, TLC

(***************************************************************************)
(* JavaScript values                                                       *)
(***************************************************************************)
Undef == [t |-> "undefined", s |-> <<>>, n |-> 0]
Null == [t |-> "null", s |-> <<>>, n |-> 0]
NaNv == [t |-> "NaN", s |-> <<>>, n |-> 0]
Num(n) == [t |-> "number", s |-> <<>>, n |-> n]
Str(s) == [t |-> "string", s |-> s, n |-> 0]

\* JavaScript truthiness, as used by `if (x)`, `x ? a : b` and `x || y`.
Truthy(v) ==
  CASE v.t = "number" -> v.n # 0
    [] v.t = "string" -> v.s # <<>>
    [] OTHER -> FALSE

\* a || b
OrElse(a, b) == IF Truthy(a) THEN a ELSE b

\* variant: ?? written as ||, which drops a depth or index of 0
NullishAsOr(a, b) == IF Truthy(a) THEN a ELSE b

\* a ?? b
Nullish(a, b) == IF a.t \in {"undefined", "null"} THEN b ELSE a

\* a + 1 for the values an index field can hold
PlusOne(v) ==
  CASE v.t = "number" -> Num(v.n + 1)
    [] v.t = "null" -> Num(1)
    [] OTHER -> NaNv

Rep(c, n) == [i \in 1..n |-> c]

(***************************************************************************)
(* Characters and digits                                                   *)
(***************************************************************************)
LowerHex == <<"0", "1", "2", "3", "4", "5", "6", "7", "8", "9",
              "a", "b", "c", "d", "e", "f">>
UpperHex == <<"0", "1", "2", "3", "4", "5", "6", "7", "8", "9",
              "A", "B", "C", "D", "E", "F">>
LowerAlpha == <<"a", "b", "c", "d", "e", "f", "g", "h", "i", "j", "k", "l", "m",
                "n", "o", "p", "q", "r", "s", "t", "u", "v", "w", "x", "y", "z">>
UpperAlpha == <<"A", "B", "C", "D", "E", "F", "G", "H", "I", "J", "K", "L", "M",
                "N", "O", "P", "Q", "R", "S", "T", "U", "V", "W", "X", "Y", "Z">>

IndexIn(seq, c) ==
  IF \E i \in 1..Len(seq) : seq[i] = c
  THEN CHOOSE i \in 1..Len(seq) : seq[i] = c
  ELSE 0

\* the value of each hex digit character
HexTable ==
  [c \in {LowerHex[i] : i \in 1..16} \cup {UpperHex[i] : i \in 1..16} |->
     IF IndexIn(LowerHex, c) > 0 THEN IndexIn(LowerHex, c) - 1
     ELSE IndexIn(UpperHex, c) - 1]

\* value of a digit character in base 16 (-1 when it is no hex digit)
DigitValue(c) == IF c \in DOMAIN HexTable THEN HexTable[c] ELSE -1

IsHexDigit(c) == DigitValue(c) >= 0

WhiteSpace == {" ", "\t", "\n"}

(***************************************************************************)
(* parseInt(string, radix), for radix 10 and 16: leading white space is    *)
(* skipped, a sign is accepted, radix 16 accepts a 0x prefix, the longest  *)
(* prefix of digits is converted, and no digit at all gives NaN.           *)
(***************************************************************************)
RECURSIVE SkipSpace(_)
SkipSpace(s) ==
  IF s # <<>> /\ s[1] \in WhiteSpace THEN SkipSpace(Tail(s)) ELSE s

RECURSIVE DigitsValue(_, _, _)
DigitsValue(s, radix, acc) ==
  IF s # <<>> /\ DigitValue(s[1]) >= 0 /\ DigitValue(s[1]) < radix
  THEN DigitsValue(Tail(s), radix, acc * radix + DigitValue(s[1]))
  ELSE acc

parseInt(s, radix) ==
  LET t1 == SkipSpace(s)
      neg == t1 # <<>> /\ t1[1] = "-"
      t2 == IF t1 # <<>> /\ t1[1] \in {"-", "+"} THEN Tail(t1) ELSE t1
      t3 == IF radix = 16 /\ Len(t2) >= 2 /\ t2[1] = "0" /\ t2[2] \in {"x", "X"}
            THEN SubSeq(t2, 3, Len(t2)) ELSE t2
      has == t3 # <<>> /\ DigitValue(t3[1]) >= 0 /\ DigitValue(t3[1]) < radix
      mag == DigitsValue(t3, radix, 0)
  IN IF has THEN Num(IF neg THEN 0 - mag ELSE mag) ELSE NaNv

(***************************************************************************)
(* utils/crypto.ts                                                         *)
(***************************************************************************)
\* hex.replace(/^0x/, '')
StripPrefix(hex) ==
  IF Len(hex) >= 2 /\ hex[1] = "0" /\ hex[2] = "x"
  THEN SubSeq(hex, 3, Len(hex)) ELSE hex

\* what a Uint8Array element holds after `bytes[i] = v`
ToUint8(v) == IF v.t = "number" THEN ((v.n % 256) + 256) % 256 ELSE 0

\* new Uint8Array(length / 2) throws a RangeError when length is odd
hexToBytesThrows(hex) == Len(StripPrefix(hex)) % 2 = 1

\* variant: the 0x prefix is not removed
hexToBytesKeepPrefix(hex) ==
  [i \in 1..(Len(hex) \div 2) |-> ToUint8(parseInt(SubSeq(hex, 2 * i - 1, 2 * i), 16))]

hexToBytes(hex) ==
  LET h == StripPrefix(hex)
  IN [i \in 1..(Len(h) \div 2) |-> ToUint8(parseInt(SubSeq(h, 2 * i - 1, 2 * i), 16))]

\* b.toString(16).padStart(2, '0')
ByteToHex(b) ==
  IF b < 16 THEN <<"0", LowerHex[b + 1]>>
  ELSE <<LowerHex[(b \div 16) + 1], LowerHex[(b % 16) + 1]>>

\* Array.from(bytes).map(...).join(''): two characters for each byte
bytesToHex(bytes) ==
  [i \in 1..(2 * Len(bytes)) |-> ByteToHex(bytes[(i + 1) \div 2])[2 - (i % 2)]]

\* stand-in for @noble/hashes keccak_256: a deterministic 32-byte digest
RECURSIVE Absorb(_, _, _)
Absorb(bytes, lo, hi) ==
  IF lo > hi THEN 7
  ELSE IF lo = hi THEN (bytes[lo] + 1) * (lo + 2)
  ELSE LET mid == (lo + hi) \div 2
       IN (Absorb(bytes, lo, mid) * 31 + Absorb(bytes, mid + 1, hi) * 17 + hi) % 65521

HashLen == 32

keccak_256(bytes) ==
  LET seed == Absorb(bytes, 1, Len(bytes))
  IN [i \in 1..HashLen |-> (seed \div i + i * ((seed % 13) + 1)) % 256]

\* stand-in for @noble/curves secp256k1.getPublicKey(key, false):
\* 65 bytes, format byte 0x04 first; throws on a key that is no valid scalar
KeyLen == 32

\* the order n of the secp256k1 group, big endian
CurveOrder ==
  <<255, 255, 255, 255, 255, 255, 255, 255, 255, 255, 255, 255, 255, 255, 255, 254,
    186, 174, 220, 230, 175, 72, 160, 59, 191, 210, 94, 140, 208, 54, 65, 65>>

\* a private key is 32 bytes that stand for a number k with 0 < k < n
ValidScalar(bytes) ==
  /\ Len(bytes) = KeyLen
  /\ \E i \in 1..Len(bytes) : bytes[i] # 0
  /\ \E i \in 1..Len(bytes) :
       /\ bytes[i] < CurveOrder[i]
       /\ \A j \in 1..(i - 1) : bytes[j] = CurveOrder[j]

getPublicKey(bytes) ==
  <<4>> \o keccak_256(bytes \o <<1>>) \o keccak_256(bytes \o <<2>>)

AddressLen == 20

getAddressFromPrivateKeyThrows(privateKeyHex) ==
  hexToBytesThrows(privateKeyHex) \/ ~ValidScalar(hexToBytes(privateKeyHex))

\* variant: slice(20) for slice(-20)
getAddressFromPrivateKeyHead(privateKeyHex) ==
  LET publicKeyHash == keccak_256(Tail(getPublicKey(hexToBytes(privateKeyHex))))
  IN SubSeq(publicKeyHash, AddressLen + 1, Len(publicKeyHash))

getAddressFromPrivateKey(privateKeyHex) ==
  LET privateKeyBytes == hexToBytes(privateKeyHex)
      publicKey == getPublicKey(privateKeyBytes)
      publicKeyHash == keccak_256(Tail(publicKey))
  IN SubSeq(publicKeyHash, Len(publicKeyHash) - AddressLen + 1, Len(publicKeyHash))

(***************************************************************************)
(* @hostasis/swarm-stamper: normalizeProjectSlug and deriveProjectKey      *)
(***************************************************************************)
MaxSlugLen == 50

ToLower(c) == IF IndexIn(UpperAlpha, c) > 0 THEN LowerAlpha[IndexIn(UpperAlpha, c)] ELSE c

IsSlugChar(c) == IndexIn(LowerAlpha, c) > 0 \/ (IsHexDigit(c) /\ IndexIn(LowerHex, c) \in 1..10)

\* every character outside [a-z0-9] becomes "-", and of a run of "-" only the
\* first is kept
RECURSIVE Collapse(_, _, _)
Collapse(m, lo, hi) ==
  IF lo > hi THEN <<>>
  ELSE IF lo = hi
       THEN IF m[lo] # "-" \/ lo = 1 \/ m[lo - 1] # "-" THEN <<m[lo]>> ELSE <<>>
       ELSE LET mid == (lo + hi) \div 2
            IN Collapse(m, lo, mid) \o Collapse(m, mid + 1, hi)

TrimHyphens(s) ==
  LET a == IF s # <<>> /\ s[1] = "-" THEN Tail(s) ELSE s
  IN IF a # <<>> /\ a[Len(a)] = "-" THEN SubSeq(a, 1, Len(a) - 1) ELSE a

SlugOf(name) ==
  LET m == [i \in 1..Len(name) |->
              IF IsSlugChar(ToLower(name[i])) THEN ToLower(name[i]) ELSE "-"]
      t == TrimHyphens(Collapse(m, 1, Len(m)))
  IN SubSeq(t, 1, IF Len(t) > MaxSlugLen THEN MaxSlugLen ELSE Len(t))

\* InvalidSlug: the name normalizes to the empty string
normalizeProjectSlugThrows(name) == SlugOf(name) = <<>>

normalizeProjectSlug(name) == SlugOf(name)

\* UTF-8 code of a slug character
CharCode(c) ==
  IF IndexIn(LowerAlpha, c) > 0 THEN 96 + IndexIn(LowerAlpha, c)
  ELSE IF IndexIn(LowerHex, c) \in 1..10 THEN 47 + IndexIn(LowerHex, c)
  ELSE 45

Utf8(s) == [i \in 1..Len(s) |-> CharCode(s[i])]

\* keccak256(parentKey || slug), as a 64-character hex string
DerivedKey(parentBytes, slug) == bytesToHex(keccak_256(parentBytes \o Utf8(slug)))

\* The outcomes of deriveProjectKey(parent, slug): the derived key, or a throw
\* (DerivationFailed).  The hash here is a stand-in, so which inputs give a
\* digest that is no valid scalar is not known: the call may throw for any
\* input.  What the library does with an undefined parent key is not known
\* either: it may throw or derive from an empty parent.
deriveProjectKey(parent, slug) ==
  IF parent.t = "string"
  THEN IF hexToBytesThrows(parent.s)
          \/ ~ValidScalar(keccak_256(hexToBytes(parent.s) \o Utf8(slug)))
       THEN {[throws |-> TRUE, privateKey |-> Undef]}
       ELSE {[throws |-> TRUE, privateKey |-> Undef],
             [throws |-> FALSE, privateKey |-> Str(DerivedKey(hexToBytes(parent.s), slug))]}
  ELSE {[throws |-> TRUE, privateKey |-> Undef],
        [throws |-> FALSE, privateKey |-> Str(DerivedKey(<<>>, slug))]}

(***************************************************************************)
(* The format check of the commands: /^(0x)?[0-9a-fA-F]{64}$/              *)
(***************************************************************************)
HexChars == 64

AllHex(s) == \A i \in 1..Len(s) : IsHexDigit(s[i])

\* variant: the regex without the {64} length
MatchesHexAnyLength(s) == AllHex(StripPrefix(s))

MatchesHex64(s) ==
  \/ Len(s) = HexChars /\ AllHex(s)
  \/ /\ Len(s) = HexChars + 2
     /\ s[1] = "0" /\ s[2] = "x"
     /\ AllHex(SubSeq(s, 3, Len(s)))

(***************************************************************************)
(* utils/swarm.ts                                                          *)
(***************************************************************************)
DEFAULT_GNOSIS_RPC_URL == Str(<<"https://rpc.gnosis.gateway.fm">>)
DEFAULT_GATEWAY_URL == Str(<<"https://bzz.sh">>)

TopicLen == 32

\* new Uint8Array(32)
ZeroTopic == [i \in 1..TopicLen |-> 0]

\* What the contract read gives: a uint8, or a failure (the call reverts, the
\* batch is unknown, the endpoint is unreachable or answers something else).
RpcOk(n) == [ok |-> TRUE, depth |-> n]
RpcFailed == [ok |-> FALSE, depth |-> 0]

\* variant: a failed call gives undefined instead of null
fetchBatchDepthUndefined(reply) == IF reply.ok THEN Num(reply.depth) ELSE Undef

\* fetchBatchDepth: Number(depth), or null from the catch block
fetchBatchDepth(reply) == IF reply.ok THEN Num(reply.depth) ELSE Null

\* A gateway response: status 0 is a transport failure (timeout, DNS); the
\* header and body fields are JavaScript values, Undef when missing.
Response(status, hNext, hCur, bNext, bCur) ==
  [status |-> status, hNext |-> hNext, hCur |-> hCur, bNext |-> bNext, bCur |-> bCur]

NoResponse == [status |-> 0 - 1, hNext |-> Undef, hCur |-> Undef, bNext |-> Undef, bCur |-> Undef]

HTTP_OK == 200
HTTP_NOT_FOUND == 404

\* variant: no validateStatus, every status is handed to the caller
ValidateStatusAny(status) == TRUE

\* validateStatus: axios throws on every other status
ValidateStatus(status) == status = HTTP_OK \/ status = HTTP_NOT_FOUND

\* variant: the next index read as a decimal number
IndexFromNextDecimal(feedIndexNext) ==
  IF feedIndexNext.t = "string" THEN parseInt(feedIndexNext.s, 10) ELSE feedIndexNext

IndexFromNext(feedIndexNext) ==
  IF feedIndexNext.t = "string" THEN parseInt(feedIndexNext.s, 16) ELSE feedIndexNext

\* variant: the last written index returned as the next one
IndexFromCurrentNoIncrement(feedIndex) ==
  IF feedIndex.t = "string" THEN parseInt(feedIndex.s, 16) ELSE feedIndex

IndexFromCurrent(feedIndex) ==
  IF feedIndex.t = "string" THEN PlusOne(parseInt(feedIndex.s, 16)) ELSE PlusOne(feedIndex)

\* variant: the response fields read before the 404 test
fetchNextFeedIndexFieldsFirst(response) ==
  LET feedIndexNext == OrElse(response.hNext, response.bNext)
      feedIndex == OrElse(response.hCur, response.bCur)
  IN IF ~ValidateStatus(response.status) THEN Null
     ELSE IF feedIndexNext.t # "undefined" THEN IndexFromNext(feedIndexNext)
     ELSE IF feedIndex.t # "undefined" THEN IndexFromCurrent(feedIndex)
     ELSE IF response.status = HTTP_NOT_FOUND THEN Num(0)
     ELSE Null

\* fetchNextFeedIndex, from the response of the GET on /feeds/<owner>/<topic>
fetchNextFeedIndex(response) ==
  LET feedIndexNext == OrElse(response.hNext, response.bNext)
      feedIndex == OrElse(response.hCur, response.bCur)
  IN IF ~ValidateStatus(response.status) THEN Null
     ELSE IF response.status = HTTP_NOT_FOUND THEN Num(0)
     ELSE IF feedIndexNext.t # "undefined" THEN IndexFromNext(feedIndexNext)
     ELSE IF feedIndex.t # "undefined" THEN IndexFromCurrent(feedIndex)
     ELSE Null

(***************************************************************************)
(* Inputs                                                                  *)
(***************************************************************************)
KeyA == Rep("a", HexChars)
BatchB == Rep("b", HexChars)
RefC == Rep("c", HexChars)
TopicT == Rep("1", HexChars)
Malformed == <<"x", "y", "z">>
OtherGateway == Str(<<"https://gateway.example">>)
OtherRpc == Str(<<"https://rpc.example">>)

Keys == {Str(<<"0", "x">> \o KeyA), Str(SubSeq(KeyA, 2, HexChars))}
BatchIds == {Str(BatchB), Str(Malformed)}
References == {Str(RefC), Str(Malformed)}
Projects == {Undef, Str(<<"M", "y", " ", "B", "l", "o", "g">>), Str(<<" ", " ">>)}
DepthArgs == {Undef, Str(<<"0">>), Str(<<"1", "7">>)}
IndexArgs == {Undef, Str(<<"0">>), Str(<<"5">>)}
TopicArgs == {Undef, Str(TopicT), Str(<<"a", "b">>)}
Gateways == {DEFAULT_GATEWAY_URL, OtherGateway}

\* options of `hostasis feed update`, as commander hands them to the action
FeedUpdateOptions ==
  [cmd : {"feedUpdate"}, key : Keys, batchId : BatchIds \cup {Undef},
   reference : References, project : Projects, depth : DepthArgs,
   index : IndexArgs, topic : TopicArgs, gateway : Gateways,
   gnosisRpc : {Undef}, feed : {FALSE}, quiet : BOOLEAN, output : {"text"},
   pathOk : {TRUE}]

\* options of `hostasis upload <path>`; pathOk: the path exists and holds files
UploadOptions ==
  [cmd : {"upload"}, key : Keys, batchId : BatchIds,
   reference : {Undef}, project : Projects, depth : DepthArgs,
   index : IndexArgs, topic : {Undef}, gateway : Gateways,
   gnosisRpc : {DEFAULT_GNOSIS_RPC_URL, OtherRpc}, feed : BOOLEAN, quiet : BOOLEAN,
   output : {"text", "json"}, pathOk : BOOLEAN]

\* arguments of a direct call of the exported updateFeed
ApiOptions ==
  [cmd : {"updateFeed"}, key : {Str(KeyA)}, batchId : {Str(BatchB)},
   reference : {Str(RefC)}, project : Projects, depth : {Undef, Num(0), Num(17)},
   index : {Undef, Num(0), Num(5)}, topic : TopicArgs, gateway : {Undef, OtherGateway},
   gnosisRpc : {Undef}, feed : {FALSE}, quiet : {TRUE}, output : {"text"},
   pathOk : {TRUE}]

Options == FeedUpdateOptions \cup UploadOptions \cup ApiOptions

\* obj.name, undefined when the object has no such property
Prop(obj, name) == IF name \in DOMAIN obj THEN obj[name] ELSE Undef

(***************************************************************************)
(* The storage gateway and the RPC endpoint                                *)
(***************************************************************************)
MaxIndex == 5

\* n.toString(16)
NumToHex(n) == IF n < 16 THEN <<LowerHex[n + 1]>> ELSE ByteToHex(n)

\* highest index written to the feed (owner, topic), -1 when there is none
Hi(fs, owner, topic) ==
  LET idx == {f.index.n : f \in {g \in fs : g.owner = owner /\ g.topic = topic
                                            /\ g.index.t = "number"}}
  IN IF idx = {} THEN -1 ELSE CHOOSE m \in idx : \A k \in idx : k <= m

\* the answers of a gateway that reports the feed's state as it is
TruthfulResponses(hi) ==
  IF hi < 0 THEN {Response(HTTP_NOT_FOUND, Undef, Undef, Undef, Undef)}
  ELSE {Response(HTTP_OK, Str(NumToHex(hi + 1)), Str(NumToHex(hi)), Undef, Undef),
        Response(HTTP_OK, Undef, Str(NumToHex(hi)), Undef, Undef),
        Response(HTTP_OK, Undef, Undef, Num(hi + 1), Num(hi)),
        Response(HTTP_OK, Undef, Undef, Undef, Num(hi))}

\* other answers: transport failure, other statuses, stale, partial or
\* malformed index fields
OtherResponses ==
  {Response(HTTP_NOT_FOUND, Undef, Undef, Undef, Undef),
   Response(HTTP_NOT_FOUND, Str(<<"5">>), Str(<<"4">>), Num(5), Num(4)),
   Response(HTTP_OK, Undef, Undef, Undef, Undef),
   Response(HTTP_OK, Str(<<"a">>), Str(<<"4">>), Undef, Undef),
   Response(HTTP_OK, Str(<<"5">>), Undef, Undef, Undef),
   Response(HTTP_OK, Undef, Str(<<"4">>), Undef, Undef),
   Response(HTTP_OK, Undef, Str(<<"0">>), Undef, Undef),
   Response(HTTP_OK, Undef, Undef, Num(MaxIndex), Undef),
   Response(HTTP_OK, Undef, Undef, Num(0), Num(3)),
   Response(HTTP_OK, Undef, Undef, Undef, Num(0)),
   Response(HTTP_OK, Undef, Undef, Str(<<"1", "f">>), Undef),
   Response(HTTP_OK, Str(<<"z", "z">>), Undef, Undef, Undef),
   Response(HTTP_OK, Undef, Undef, Null, Undef),
   Response(HTTP_OK, Undef, Undef, Undef, Null),
   Response(HTTP_OK, Str(<<>>), Str(<<"3">>), Undef, Undef),
   Response(500, Str(<<"5">>), Str(<<"4">>), Undef, Undef)}

\* a gateway that cannot answer: transport failure, or an unexpected status
FailedResponses ==
  {Response(0, Undef, Undef, Undef, Undef), Response(500, Undef, Undef, Undef, Undef)}

GatewayResponses(fs, owner, topic, truthful) ==
  IF truthful THEN FailedResponses \cup TruthfulResponses(Hi(fs, owner, topic))
  ELSE FailedResponses \cup OtherResponses \cup TruthfulResponses(Hi(fs, owner, topic))

\* what the RPC endpoint can answer to the batchDepth call
RpcReplies == {RpcOk(0), RpcOk(17), RpcOk(20), RpcFailed}

\* readContract encodes its bytes32 argument before it sends anything: a
\* batch id of another length throws inside the try block, with no request
Bytes32Hex(batchId) == Len(StripPrefix(batchId.s)) = HexChars

(***************************************************************************)
(* State                                                                   *)
(***************************************************************************)
VARIABLES
  opts,      \* the options of the running invocation
  inv,       \* its position and local variables
  calls,     \* the network calls it has issued, in order
  emitted,   \* the feed-write requests it has handed to writeFeedUpdate
  warnings,  \* the spinner warnings it has shown
  stdout,    \* what it has printed with console.log
  feeds,     \* the gateway: the feed updates written so far
  honest,    \* whether the gateway reports feed states as they are
  lastWrite, \* the last accepted feed write, with the feed's state before it
  runs,      \* number of the running invocation
  other      \* a second invocation running at the same time, suspended (or none)

vars == <<opts, inv, calls, emitted, warnings, stdout, feeds, honest, lastWrite, runs, other>>

IndexWarning == "Could not fetch feed index, using default: 0"
DepthWarning == "Could not fetch batch depth, using default: 20"

DEFAULT_DEPTH == 20
DEFAULT_INDEX == 0
RUNNING == 0 - 1

InitInv ==
  [pc |-> "start", exitCode |-> RUNNING,
   depth |-> Undef, index |-> Undef,
   signerPrivateKey |-> Undef, feedOwnerKey |-> Undef,
   topic |-> <<>>, reference |-> Undef, owner |-> <<>>,
   bytes |-> <<>>, hex |-> <<>>, decoded |-> <<>>,
   depthQueried |-> FALSE, fetchedDepth |-> Undef,
   indexQueried |-> FALSE, fetchedIndex |-> Undef, indexResponse |-> NoResponse]

Call(kind, url, owner, topic, batchId, depth) ==
  [kind |-> kind, url |-> url, owner |-> owner, topic |-> topic,
   batchId |-> batchId, depth |-> depth]

\* the argument of writeFeedUpdate
Request(vault, signer, reference, index, batchId, depth, gateway, topic) ==
  [vaultPrivateKey |-> vault, signerPrivateKey |-> signer,
   contentReference |-> reference, feedIndex |-> index, batchId |-> batchId,
   depth |-> depth, gatewayUrl |-> gateway, topic |-> topic]

NoRequest == Request(Undef, Undef, Undef, Undef, Undef, Undef, Undef, <<>>)

\* the key writeFeedUpdate signs the feed update with
SignerOf(req) ==
  IF req.signerPrivateKey.t = "undefined" THEN req.vaultPrivateKey
  ELSE req.signerPrivateKey

\* the owner of the feed a key signs for
OwnerOf(key) ==
  IF key.t = "string" /\ ~getAddressFromPrivateKeyThrows(key.s)
  THEN getAddressFromPrivateKey(key.s) ELSE <<>>

NoWrite ==
  [owner |-> <<>>, topic |-> <<>>, index |-> Undef, hiBefore |-> 0 - 1, run |-> 0,
   cmd |-> "", explicit |-> FALSE, fetched |-> Undef]

Init ==
  /\ opts \in Options
  /\ inv = InitInv
  /\ calls = <<>>
  /\ emitted = <<>>
  /\ warnings = <<>>
  /\ stdout = <<>>
  /\ feeds = {}
  /\ honest = FALSE
  /\ lastWrite = NoWrite
  /\ runs = 1
  /\ other = <<>>

Finish(code) == inv' = [inv EXCEPT !.pc = "done", !.exitCode = code]

\* spinner.warn(...) under `if (!options.quiet && spinner)`
Warn(msg) == warnings' = IF opts.quiet THEN warnings ELSE Append(warnings, msg)

IssueCall(c) == calls' = Append(calls, c)

OnlyInv == UNCHANGED <<opts, calls, emitted, warnings, stdout, feeds, honest, lastWrite, runs, other>>

(***************************************************************************)
(* commands/feed.ts: updateFeed                                            *)
(***************************************************************************)
Thrown == [throws |-> TRUE, request |-> NoRequest]

UpdateFeed(options) ==
  LET topicArg == Prop(options, "topic")
      topic == IF Truthy(topicArg) THEN hexToBytes(topicArg.s) ELSE ZeroTopic
      index == Nullish(Prop(options, "index"), Num(DEFAULT_INDEX))
      depth == Nullish(Prop(options, "depth"), Num(DEFAULT_DEPTH))
      gateway == OrElse(Prop(options, "gateway"), DEFAULT_GATEWAY_URL)
      project == Prop(options, "project")
      vaultKey == Prop(options, "vaultKey")
      Write(signer) ==
        [throws |-> FALSE,
         request |-> Request(vaultKey, signer, Prop(options, "reference"), index,
                             Prop(options, "batchId"), depth, gateway, topic)]
  IN IF Truthy(topicArg) /\ hexToBytesThrows(topicArg.s) THEN {Thrown}
     ELSE IF ~Truthy(project) THEN {Write(Undef)}
     ELSE IF normalizeProjectSlugThrows(project.s) THEN {Thrown}
     ELSE {IF d.throws THEN Thrown ELSE Write(d.privateKey) :
             d \in deriveProjectKey(vaultKey, normalizeProjectSlug(project.s))}

\* writeFeedUpdate(req) is called: the request leaves the program
Emit(req) ==
  /\ emitted' = Append(emitted, req)
  /\ IssueCall(Call("feedWrite", req.gatewayUrl, OwnerOf(SignerOf(req)), req.topic,
                    req.batchId, req.depth))

\* the gateway accepts the feed update just sent: last write wins
Accept(req) ==
  LET owner == calls[Len(calls)].owner
      same == {f \in feeds : f.owner = owner /\ f.topic = req.topic
                             /\ f.index = req.feedIndex}
  IN /\ feeds' = (feeds \ same) \cup
                   {[owner |-> owner, topic |-> req.topic, index |-> req.feedIndex,
                     reference |-> req.contentReference]}
     /\ lastWrite' = [owner |-> owner, topic |-> req.topic, index |-> req.feedIndex,
                      hiBefore |-> Hi(feeds, owner, req.topic), run |-> runs,
                      cmd |-> opts.cmd, explicit |-> opts.index # Undef,
                      fetched |-> inv.fetchedIndex]

\* `if (options.depth)` and `if (options.index)` / `if (options.feedIndex)`:
\* commander hands the option over as a string, so "0" counts as given
DepthGiven(arg) == Truthy(arg)

\* variant: the option tested as a number, so 0 counts as not given
IndexGivenAsNumber(arg) == Truthy(arg) /\ parseInt(arg.s, 10) # Num(0)

IndexGiven(arg) == Truthy(arg)

(***************************************************************************)
(* commands/feed.ts: the `feed update` action                              *)
(***************************************************************************)
FeedUpdateValidate ==
  /\ opts.cmd = "feedUpdate" /\ inv.pc = "start"
  /\ IF \/ ~MatchesHex64(opts.reference.s)
        \/ ~MatchesHex64(opts.key.s)
        \/ ~Truthy(opts.batchId)
        \/ (Truthy(opts.topic) /\ hexToBytesThrows(opts.topic.s))
     THEN Finish(1)
     ELSE inv' = [inv EXCEPT !.pc = "derive",
                             !.topic = IF Truthy(opts.topic)
                                       THEN hexToBytes(opts.topic.s) ELSE ZeroTopic]
  /\ OnlyInv

\* variant: a failed normalization or derivation is swallowed and the
\* reserve key signs
FeedUpdateDeriveLenient ==
  /\ opts.cmd = "feedUpdate" /\ inv.pc = "derive"
  /\ IF ~Truthy(opts.project) \/ normalizeProjectSlugThrows(opts.project.s)
     THEN inv' = [inv EXCEPT !.pc = "depth", !.feedOwnerKey = opts.key]
     ELSE \E d \in deriveProjectKey(opts.key, normalizeProjectSlug(opts.project.s)) :
            IF d.throws
            THEN inv' = [inv EXCEPT !.pc = "depth", !.feedOwnerKey = opts.key]
            ELSE inv' = [inv EXCEPT !.pc = "depth",
                                    !.signerPrivateKey = d.privateKey,
                                    !.feedOwnerKey = d.privateKey]
  /\ OnlyInv

FeedUpdateDerive ==
  /\ opts.cmd = "feedUpdate" /\ inv.pc = "derive"
  /\ IF ~Truthy(opts.project)
     THEN inv' = [inv EXCEPT !.pc = "depth", !.feedOwnerKey = opts.key]
     ELSE IF normalizeProjectSlugThrows(opts.project.s) THEN Finish(1)
     ELSE \E d \in deriveProjectKey(opts.key, normalizeProjectSlug(opts.project.s)) :
            IF d.throws THEN Finish(1)
            ELSE inv' = [inv EXCEPT !.pc = "depth",
                                    !.signerPrivateKey = d.privateKey,
                                    !.feedOwnerKey = d.privateKey]
  /\ OnlyInv

FeedUpdateDepth ==
  /\ opts.cmd = "feedUpdate" /\ inv.pc = "depth"
  /\ IF DepthGiven(opts.depth)
     THEN /\ inv' = [inv EXCEPT !.pc = "index", !.depth = parseInt(opts.depth.s, 10)]
          /\ UNCHANGED <<calls, warnings>>
     ELSE IF ~Bytes32Hex(opts.batchId)
     THEN /\ inv' = [inv EXCEPT !.pc = "index", !.depthQueried = TRUE,
                                !.fetchedDepth = Null, !.depth = Num(DEFAULT_DEPTH)]
          /\ Warn(DepthWarning)
          /\ UNCHANGED calls
     ELSE /\ inv' = [inv EXCEPT !.pc = "awaitDepth", !.depthQueried = TRUE]
          /\ IssueCall(Call("depth", OrElse(opts.gateway, DEFAULT_GATEWAY_URL), <<>>, <<>>,
                            opts.batchId, Undef))
          /\ UNCHANGED warnings
  /\ UNCHANGED <<opts, emitted, stdout, feeds, honest, lastWrite, runs, other>>

\* variant: a failed depth query is issued again
FeedUpdateDepthReplyRetry ==
  /\ opts.cmd = "feedUpdate" /\ inv.pc = "awaitDepth"
  /\ \E reply \in RpcReplies :
       LET fetchedDepth == fetchBatchDepth(reply)
       IN IF fetchedDepth.t # "null"
          THEN inv' = [inv EXCEPT !.pc = "index", !.fetchedDepth = fetchedDepth,
                                  !.depth = fetchedDepth]
          ELSE inv' = [inv EXCEPT !.pc = "depth"]
  /\ UNCHANGED <<opts, calls, emitted, warnings, stdout, feeds, honest, lastWrite, runs, other>>

FeedUpdateDepthReply ==
  /\ opts.cmd = "feedUpdate" /\ inv.pc = "awaitDepth"
  /\ \E reply \in RpcReplies :
       LET fetchedDepth == fetchBatchDepth(reply)
       IN IF fetchedDepth.t # "null"
          THEN /\ inv' = [inv EXCEPT !.pc = "index", !.fetchedDepth = fetchedDepth,
                                     !.depth = fetchedDepth]
               /\ UNCHANGED warnings
          ELSE /\ inv' = [inv EXCEPT !.pc = "index", !.fetchedDepth = fetchedDepth,
                                     !.depth = Num(DEFAULT_DEPTH)]
               /\ Warn(DepthWarning)
  /\ UNCHANGED <<opts, calls, emitted, stdout, feeds, honest, lastWrite, runs, other>>

FeedUpdateIndex ==
  /\ opts.cmd = "feedUpdate" /\ inv.pc = "index"
  /\ IF IndexGiven(opts.index)
     THEN /\ inv' = [inv EXCEPT !.pc = "write", !.index = parseInt(opts.index.s, 10)]
          /\ UNCHANGED <<calls, warnings>>
     ELSE IF getAddressFromPrivateKeyThrows(inv.feedOwnerKey.s)
     THEN /\ inv' = [inv EXCEPT !.pc = "write", !.indexQueried = TRUE,
                                !.fetchedIndex = Null, !.index = Num(DEFAULT_INDEX)]
          /\ Warn(IndexWarning)
          /\ UNCHANGED calls
     ELSE /\ inv' = [inv EXCEPT !.pc = "awaitIndex", !.indexQueried = TRUE]
          /\ IssueCall(Call("feedIndex", OrElse(opts.gateway, DEFAULT_GATEWAY_URL),
                            getAddressFromPrivateKey(inv.feedOwnerKey.s), inv.topic,
                            Undef, Undef))
          /\ UNCHANGED warnings
  /\ UNCHANGED <<opts, emitted, stdout, feeds, honest, lastWrite, runs, other>>

FeedUpdateIndexReply ==
  /\ opts.cmd = "feedUpdate" /\ inv.pc = "awaitIndex"
  /\ \E response \in GatewayResponses(feeds, calls[Len(calls)].owner,
                                      calls[Len(calls)].topic, honest) :
       LET fetchedIndex == fetchNextFeedIndex(response)
       IN IF fetchedIndex.t # "null"
          THEN /\ inv' = [inv EXCEPT !.pc = "write", !.indexResponse = response,
                                     !.fetchedIndex = fetchedIndex, !.index = fetchedIndex]
               /\ UNCHANGED warnings
          ELSE /\ inv' = [inv EXCEPT !.pc = "write", !.indexResponse = response,
                                     !.fetchedIndex = fetchedIndex,
                                     !.index = Num(DEFAULT_INDEX)]
               /\ Warn(IndexWarning)
  /\ UNCHANGED <<opts, calls, emitted, stdout, feeds, honest, lastWrite, runs, other>>

\* variant: the feed is looked at once more and an occupied index is refused
FeedUpdateWriteIfFree ==
  /\ opts.cmd = "feedUpdate" /\ inv.pc = "write"
  /\ LET req == Request(opts.key, inv.signerPrivateKey, opts.reference, inv.index,
                        opts.batchId, inv.depth,
                        OrElse(opts.gateway, DEFAULT_GATEWAY_URL), inv.topic)
     IN IF \E f \in feeds : /\ f.owner = OwnerOf(SignerOf(req))
                            /\ f.topic = req.topic /\ f.index = req.feedIndex
        THEN /\ Finish(1)
             /\ UNCHANGED <<emitted, calls>>
        ELSE /\ Emit(req)
             /\ inv' = [inv EXCEPT !.pc = "awaitWrite"]
  /\ UNCHANGED <<opts, warnings, stdout, feeds, honest, lastWrite, runs, other>>

\* variant: the write does not wait for the depth and sends the default
FeedUpdateWriteDefaultDepth ==
  /\ opts.cmd = "feedUpdate" /\ inv.pc = "write"
  /\ Emit(Request(opts.key, inv.signerPrivateKey, opts.reference, inv.index,
                  opts.batchId, Num(DEFAULT_DEPTH), OrElse(opts.gateway, DEFAULT_GATEWAY_URL),
                  inv.topic))
  /\ inv' = [inv EXCEPT !.pc = "awaitWrite"]
  /\ UNCHANGED <<opts, warnings, stdout, feeds, honest, lastWrite, runs, other>>

FeedUpdateWrite ==
  /\ opts.cmd = "feedUpdate" /\ inv.pc = "write"
  /\ Emit(Request(opts.key, inv.signerPrivateKey, opts.reference, inv.index,
                  opts.batchId, inv.depth, OrElse(opts.gateway, DEFAULT_GATEWAY_URL),
                  inv.topic))
  /\ inv' = [inv EXCEPT !.pc = "awaitWrite"]
  /\ UNCHANGED <<opts, warnings, stdout, feeds, honest, lastWrite, runs, other>>

\* writeFeedUpdate resolves or rejects; then the result is printed
FeedUpdateWriteReply ==
  /\ opts.cmd = "feedUpdate" /\ inv.pc = "awaitWrite"
  /\ \/ /\ Accept(emitted[Len(emitted)])
        /\ IF opts.quiet
           THEN /\ stdout' = Append(stdout, [kind |-> "quiet", fields |-> {"success"}])
                /\ Finish(0)
           ELSE IF getAddressFromPrivateKeyThrows(inv.feedOwnerKey.s)
           THEN /\ stdout' = Append(stdout, [kind |-> "text", fields |-> {"Index", "Reference"}])
                /\ Finish(1)
           ELSE /\ stdout' = Append(stdout,
                       [kind |-> "text",
                        fields |-> {"Index", "Reference", "Owner"} \cup
                                   (IF Truthy(opts.project) THEN {"Project"} ELSE {})])
                /\ inv' = [inv EXCEPT !.pc = "done", !.exitCode = 0,
                                      !.owner = getAddressFromPrivateKey(inv.feedOwnerKey.s)]
     \/ /\ Finish(1)
        /\ UNCHANGED <<feeds, lastWrite, stdout>>
  /\ UNCHANGED <<opts, calls, emitted, warnings, honest, runs, other>>

(***************************************************************************)
(* commands/upload.ts: the `upload` action                                 *)
(***************************************************************************)
UploadValidate ==
  /\ opts.cmd = "upload" /\ inv.pc = "start"
  /\ IF ~MatchesHex64(opts.batchId.s) \/ ~MatchesHex64(opts.key.s)
     THEN Finish(1)
     ELSE inv' = [inv EXCEPT !.pc = "files"]
  /\ OnlyInv

\* fs.promises.stat, glob and readFile: a missing path or an empty directory throws
UploadResolveFiles ==
  /\ opts.cmd = "upload" /\ inv.pc = "files"
  /\ IF opts.pathOk THEN inv' = [inv EXCEPT !.pc = "depth"] ELSE Finish(1)
  /\ OnlyInv

UploadDepth ==
  /\ opts.cmd = "upload" /\ inv.pc = "depth"
  /\ IF DepthGiven(opts.depth)
     THEN /\ inv' = [inv EXCEPT !.pc = "upload", !.depth = parseInt(opts.depth.s, 10)]
          /\ UNCHANGED <<calls, warnings>>
     ELSE IF ~Bytes32Hex(opts.batchId)
     THEN /\ inv' = [inv EXCEPT !.pc = "upload", !.depthQueried = TRUE,
                                !.fetchedDepth = Null, !.depth = Num(DEFAULT_DEPTH)]
          /\ Warn(DepthWarning)
          /\ UNCHANGED calls
     ELSE /\ inv' = [inv EXCEPT !.pc = "awaitDepth", !.depthQueried = TRUE]
          /\ IssueCall(Call("depth", opts.gnosisRpc, <<>>, <<>>, opts.batchId, Undef))
          /\ UNCHANGED warnings
  /\ UNCHANGED <<opts, emitted, stdout, feeds, honest, lastWrite, runs, other>>

UploadDepthReply ==
  /\ opts.cmd = "upload" /\ inv.pc = "awaitDepth"
  /\ \E reply \in RpcReplies :
       LET fetchedDepth == fetchBatchDepth(reply)
       IN IF fetchedDepth.t # "null"
          THEN /\ inv' = [inv EXCEPT !.pc = "upload", !.fetchedDepth = fetchedDepth,
                                     !.depth = fetchedDepth]
               /\ UNCHANGED warnings
          ELSE /\ inv' = [inv EXCEPT !.pc = "upload", !.fetchedDepth = fetchedDepth,
                                     !.depth = Num(DEFAULT_DEPTH)]
               /\ Warn(DepthWarning)
  /\ UNCHANGED <<opts, calls, emitted, stdout, feeds, honest, lastWrite, runs, other>>

\* new StampedUploader({gatewayUrl, batchId, privateKey, depth}).uploadFiles(...)
UploadFiles ==
  /\ opts.cmd = "upload" /\ inv.pc = "upload"
  /\ IssueCall(Call("upload", OrElse(opts.gateway, DEFAULT_GATEWAY_URL), <<>>, <<>>,
                    opts.batchId, inv.depth))
  /\ inv' = [inv EXCEPT !.pc = "awaitUpload"]
  /\ UNCHANGED <<opts, emitted, warnings, stdout, feeds, honest, lastWrite, runs, other>>

UploadFilesReply ==
  /\ opts.cmd = "upload" /\ inv.pc = "awaitUpload"
  /\ \/ inv' = [inv EXCEPT !.pc = IF opts.feed THEN "derive" ELSE "output",
                           !.reference = Str(RefC)]
     \/ Finish(1)
  /\ OnlyInv

UploadDerive ==
  /\ opts.cmd = "upload" /\ inv.pc = "derive"
  /\ IF ~Truthy(opts.project)
     THEN inv' = [inv EXCEPT !.pc = "index", !.feedOwnerKey = opts.key]
     ELSE IF normalizeProjectSlugThrows(opts.project.s) THEN Finish(1)
     ELSE \E d \in deriveProjectKey(opts.key, normalizeProjectSlug(opts.project.s)) :
            IF d.throws THEN Finish(1)
            ELSE inv' = [inv EXCEPT !.pc = "index", !.feedOwnerKey = d.privateKey]
  /\ OnlyInv

\* fetchNextFeedIndex(feedOwnerKey, gateway): the topic is the default one
UploadIndex ==
  /\ opts.cmd = "upload" /\ inv.pc = "index"
  /\ IF IndexGiven(opts.index)
     THEN /\ inv' = [inv EXCEPT !.pc = "write", !.index = parseInt(opts.index.s, 10)]
          /\ UNCHANGED <<calls, warnings>>
     ELSE IF getAddressFromPrivateKeyThrows(inv.feedOwnerKey.s)
     THEN /\ inv' = [inv EXCEPT !.pc = "write", !.indexQueried = TRUE,
                                !.fetchedIndex = Null, !.index = Num(DEFAULT_INDEX)]
          /\ Warn(IndexWarning)
          /\ UNCHANGED calls
     ELSE /\ inv' = [inv EXCEPT !.pc = "awaitIndex", !.indexQueried = TRUE]
          /\ IssueCall(Call("feedIndex", OrElse(opts.gateway, DEFAULT_GATEWAY_URL),
                            getAddressFromPrivateKey(inv.feedOwnerKey.s), ZeroTopic,
                            Undef, Undef))
          /\ UNCHANGED warnings
  /\ UNCHANGED <<opts, emitted, stdout, feeds, honest, lastWrite, runs, other>>

UploadIndexReply ==
  /\ opts.cmd = "upload" /\ inv.pc = "awaitIndex"
  /\ \E response \in GatewayResponses(feeds, calls[Len(calls)].owner,
                                      calls[Len(calls)].topic, honest) :
       LET fetchedIndex == fetchNextFeedIndex(response)
       IN IF fetchedIndex.t # "null"
          THEN /\ inv' = [inv EXCEPT !.pc = "write", !.indexResponse = response,
                                     !.fetchedIndex = fetchedIndex, !.index = fetchedIndex]
               /\ UNCHANGED warnings
          ELSE /\ inv' = [inv EXCEPT !.pc = "write", !.indexResponse = response,
                                     !.fetchedIndex = fetchedIndex,
                                     !.index = Num(DEFAULT_INDEX)]
               /\ Warn(IndexWarning)
  /\ UNCHANGED <<opts, calls, emitted, stdout, feeds, honest, lastWrite, runs, other>>

\* the object literal upload passes to updateFeed
UploadFeedArgs ==
  [reference |-> inv.reference, reserveKey |-> opts.key, batchId |-> opts.batchId,
   gateway |-> opts.gateway, index |-> inv.index, depth |-> inv.depth,
   project |-> opts.project]

UploadUpdateFeed ==
  /\ opts.cmd = "upload" /\ inv.pc = "write"
  /\ \E out \in UpdateFeed(UploadFeedArgs) :
       IF out.throws
       THEN /\ Finish(1)
            /\ UNCHANGED <<emitted, calls>>
       ELSE /\ Emit(out.request)
            /\ inv' = [inv EXCEPT !.pc = "awaitWrite"]
  /\ UNCHANGED <<opts, warnings, stdout, feeds, honest, lastWrite, runs, other>>

UploadWriteReply ==
  /\ opts.cmd = "upload" /\ inv.pc = "awaitWrite"
  /\ \/ /\ Accept(emitted[Len(emitted)])
        /\ inv' = [inv EXCEPT !.pc = "output"]
     \/ /\ Finish(1)
        /\ UNCHANGED <<feeds, lastWrite>>
  /\ UNCHANGED <<opts, calls, emitted, warnings, stdout, honest, runs, other>>

UploadOutput ==
  /\ opts.cmd = "upload" /\ inv.pc = "output"
  /\ stdout' = IF opts.output = "json"
               THEN Append(stdout, [kind |-> "json", fields |-> {"reference", "url", "cid"}])
               ELSE IF ~opts.quiet
               THEN Append(stdout, [kind |-> "text", fields |-> {"Reference", "CID", "URL"}])
               ELSE Append(stdout, [kind |-> "quiet", fields |-> {"reference"}])
  /\ Finish(0)
  /\ UNCHANGED <<opts, calls, emitted, warnings, feeds, honest, lastWrite, runs, other>>

(***************************************************************************)
(* A direct call of the exported updateFeed                                *)
(***************************************************************************)
ApiFeedArgs ==
  [reference |-> opts.reference, vaultKey |-> opts.key, batchId |-> opts.batchId,
   gateway |-> opts.gateway, index |-> opts.index, depth |-> opts.depth,
   topic |-> opts.topic, project |-> opts.project]

ApiUpdateFeed ==
  /\ opts.cmd = "updateFeed" /\ inv.pc = "start"
  /\ \E out \in UpdateFeed(ApiFeedArgs) :
       IF out.throws
       THEN /\ Finish(1)
            /\ UNCHANGED <<emitted, calls>>
       ELSE /\ Emit(out.request)
            /\ inv' = [inv EXCEPT !.pc = "awaitWrite"]
  /\ UNCHANGED <<opts, warnings, stdout, feeds, honest, lastWrite, runs, other>>

ApiWriteReply ==
  /\ opts.cmd = "updateFeed" /\ inv.pc = "awaitWrite"
  /\ \/ /\ Accept(emitted[Len(emitted)])
        /\ Finish(0)
     \/ /\ Finish(1)
        /\ UNCHANGED <<feeds, lastWrite>>
  /\ UNCHANGED <<opts, calls, emitted, warnings, stdout, honest, runs, other>>

(***************************************************************************)
(* Specifications                                                          *)
(***************************************************************************)
Next ==
  \/ FeedUpdateValidate
  \/ FeedUpdateDerive
  \/ FeedUpdateDepth
  \/ FeedUpdateDepthReply
  \/ FeedUpdateIndex
  \/ FeedUpdateIndexReply
  \/ FeedUpdateWrite
  \/ FeedUpdateWriteReply
  \/ UploadValidate
  \/ UploadResolveFiles
  \/ UploadDepth
  \/ UploadDepthReply
  \/ UploadFiles
  \/ UploadFilesReply
  \/ UploadDerive
  \/ UploadIndex
  \/ UploadIndexReply
  \/ UploadUpdateFeed
  \/ UploadWriteReply
  \/ UploadOutput
  \/ ApiUpdateFeed
  \/ ApiWriteReply

\* one invocation, with any options
Spec == Init /\ [][Next]_vars

(***************************************************************************)
(* Invocations one after the other against a gateway that reports feed     *)
(* states as they are, or fails to answer                                  *)
(***************************************************************************)
MaxRuns == 2

ValidKey == Str(<<"0", "x">> \o KeyA)
MyBlog == Str(<<"M", "y", " ", "B", "l", "o", "g">>)

\* valid options, no explicit index
SeqOptions ==
  [cmd : {"feedUpdate"}, key : {ValidKey}, batchId : {Str(BatchB)},
   reference : {Str(RefC)}, project : {Undef, MyBlog}, depth : {Undef, Str(<<"1", "7">>)},
   index : {Undef}, topic : {Undef, Str(TopicT)}, gateway : {DEFAULT_GATEWAY_URL},
   gnosisRpc : {Undef}, feed : {FALSE}, quiet : {TRUE}, output : {"text"},
   pathOk : {TRUE}]
  \cup
  [cmd : {"upload"}, key : {ValidKey}, batchId : {Str(BatchB)},
   reference : {Undef}, project : {Undef, MyBlog}, depth : {Undef, Str(<<"1", "7">>)},
   index : {Undef}, topic : {Undef}, gateway : {DEFAULT_GATEWAY_URL},
   gnosisRpc : {DEFAULT_GNOSIS_RPC_URL}, feed : {TRUE}, quiet : {TRUE},
   output : {"text"}, pathOk : {TRUE}]
  \cup
  [cmd : {"updateFeed"}, key : {Str(KeyA)}, batchId : {Str(BatchB)},
   reference : {Str(RefC)}, project : {Undef}, depth : {Num(17)},
   index : {Undef}, topic : {Undef}, gateway : {Undef},
   gnosisRpc : {Undef}, feed : {FALSE}, quiet : {TRUE}, output : {"text"},
   pathOk : {TRUE}]

InitSeq ==
  /\ opts \in SeqOptions
  /\ inv = InitInv
  /\ calls = <<>>
  /\ emitted = <<>>
  /\ warnings = <<>>
  /\ stdout = <<>>
  /\ feeds = {}
  /\ honest = TRUE
  /\ lastWrite = NoWrite
  /\ runs = 1
  /\ other = <<>>

\* the process has exited; the next invocation starts
NextInvocation ==
  /\ inv.pc = "done" /\ runs < MaxRuns
  /\ opts' \in SeqOptions
  /\ inv' = InitInv
  /\ calls' = <<>>
  /\ emitted' = <<>>
  /\ warnings' = <<>>
  /\ stdout' = <<>>
  /\ runs' = runs + 1
  /\ UNCHANGED <<feeds, honest, lastWrite, other>>

NextSeq == Next \/ NextInvocation

SpecSeq == InitSeq /\ [][NextSeq]_vars

(***************************************************************************)
(* utils/crypto.ts used directly: getAddressFromPrivateKey is applied to a *)
(* key, and once more to the same key written with or without 0x           *)
(***************************************************************************)
AddrBodies ==
  {Rep(c, HexChars - 1) \o <<LowerHex[k]>> : c \in {"0", "a", "F"}, k \in 1..16}

AddrOptions ==
  [cmd : {"address"},
   key : {Str(b) : b \in AddrBodies} \cup {Str(<<"0", "x">> \o b) : b \in AddrBodies},
   batchId : {Undef}, reference : {Undef}, project : {Undef}, depth : {Undef},
   index : {Undef}, topic : {Undef}, gateway : {Undef}, gnosisRpc : {Undef},
   feed : {FALSE}, quiet : {TRUE}, output : {"text"}, pathOk : {TRUE}]

InitAddr ==
  /\ opts \in AddrOptions
  /\ inv = InitInv
  /\ calls = <<>>
  /\ emitted = <<>>
  /\ warnings = <<>>
  /\ stdout = <<>>
  /\ feeds = {}
  /\ honest = FALSE
  /\ lastWrite = NoWrite
  /\ runs = 1
  /\ other = <<>>

AddressOf ==
  /\ opts.cmd = "address" /\ inv.pc = "start"
  /\ IF getAddressFromPrivateKeyThrows(opts.key.s) THEN Finish(1)
     ELSE inv' = [inv EXCEPT !.pc = "again",
                             !.owner = getAddressFromPrivateKey(opts.key.s)]
  /\ OnlyInv

AddressOfAgain ==
  /\ opts.cmd = "address" /\ inv.pc = "again"
  /\ \E key \in {StripPrefix(opts.key.s), <<"0", "x">> \o StripPrefix(opts.key.s)} :
       IF getAddressFromPrivateKeyThrows(key) THEN Finish(1)
       ELSE inv' = [inv EXCEPT !.pc = "done", !.exitCode = 0,
                               !.owner = getAddressFromPrivateKey(key)]
  /\ OnlyInv

NextAddr == AddressOf \/ AddressOfAgain

SpecAddr == InitAddr /\ [][NextAddr]_vars

(***************************************************************************)
(* utils/crypto.ts used directly: hexToBytes is applied to a string,       *)
(* bytesToHex to the bytes it gave, and hexToBytes to that text            *)
(***************************************************************************)
MaxHexLen == 4

HexAlphabet == {"0", "9", "a", "F"}

HexTexts ==
  UNION {[1..n -> HexAlphabet] : n \in 0..MaxHexLen}

HexOptions ==
  [cmd : {"hex"},
   key : {Str(h) : h \in HexTexts} \cup {Str(<<"0", "x">> \o h) : h \in HexTexts},
   batchId : {Undef}, reference : {Undef}, project : {Undef}, depth : {Undef},
   index : {Undef}, topic : {Undef}, gateway : {Undef}, gnosisRpc : {Undef},
   feed : {FALSE}, quiet : {TRUE}, output : {"text"}, pathOk : {TRUE}]

InitHex ==
  /\ opts \in HexOptions
  /\ inv = InitInv
  /\ calls = <<>>
  /\ emitted = <<>>
  /\ warnings = <<>>
  /\ stdout = <<>>
  /\ feeds = {}
  /\ honest = FALSE
  /\ lastWrite = NoWrite
  /\ runs = 1
  /\ other = <<>>

HexToBytes ==
  /\ opts.cmd = "hex" /\ inv.pc = "start"
  /\ IF hexToBytesThrows(opts.key.s) THEN Finish(1)
     ELSE inv' = [inv EXCEPT !.pc = "encode", !.bytes = hexToBytes(opts.key.s)]
  /\ OnlyInv

BytesToHex ==
  /\ opts.cmd = "hex" /\ inv.pc = "encode"
  /\ inv' = [inv EXCEPT !.pc = "decode", !.hex = bytesToHex(inv.bytes)]
  /\ OnlyInv

HexToBytesAgain ==
  /\ opts.cmd = "hex" /\ inv.pc = "decode"
  /\ IF hexToBytesThrows(inv.hex) THEN Finish(1)
     ELSE inv' = [inv EXCEPT !.pc = "done", !.exitCode = 0,
                             !.decoded = hexToBytes(inv.hex)]
  /\ OnlyInv

NextHex == HexToBytes \/ BytesToHex \/ HexToBytesAgain

SpecHex == InitHex /\ [][NextHex]_vars

(***************************************************************************)
(* Two invocations at the same time, as two processes of the program       *)
(* against one gateway. They share nothing but the gateway, which they     *)
(* read in the index query and change in the feed write, so it is enough   *)
(* to let the processes take turns at the start and while such a request   *)
(* is in flight.                                                           *)
(***************************************************************************)
RefD == Rep("d", HexChars)

ParOptions ==
  [cmd : {"feedUpdate"}, key : {ValidKey}, batchId : {Str(BatchB)},
   reference : {Str(RefC)}, project : {Undef}, depth : {Undef, Str(<<"1", "7">>)},
   index : {Undef}, topic : {Undef}, gateway : {DEFAULT_GATEWAY_URL},
   gnosisRpc : {Undef}, feed : {FALSE}, quiet : {FALSE}, output : {"text"},
   pathOk : {TRUE}]
  \cup
  [cmd : {"upload"}, key : {ValidKey}, batchId : {Str(BatchB)},
   reference : {Undef}, project : {Undef}, depth : {Undef},
   index : {Undef}, topic : {Undef}, gateway : {DEFAULT_GATEWAY_URL},
   gnosisRpc : {DEFAULT_GNOSIS_RPC_URL}, feed : {TRUE}, quiet : {FALSE},
   output : {"json"}, pathOk : {TRUE}]
  \cup
  [cmd : {"updateFeed"}, key : {Str(KeyA)}, batchId : {Str(BatchB)},
   reference : {Str(RefC)}, project : {Undef}, depth : {Num(17)},
   index : {Undef}, topic : {Undef}, gateway : {Undef},
   gnosisRpc : {Undef}, feed : {FALSE}, quiet : {TRUE}, output : {"text"},
   pathOk : {TRUE}]

\* the second invocation: a feed update of the same feed with other content
ParOther ==
  [cmd |-> "feedUpdate", key |-> ValidKey, batchId |-> Str(BatchB),
   reference |-> Str(RefD), project |-> Undef, depth |-> Str(<<"1", "7">>),
   index |-> Undef, topic |-> Undef, gateway |-> DEFAULT_GATEWAY_URL,
   gnosisRpc |-> Undef, feed |-> FALSE, quiet |-> FALSE, output |-> "text",
   pathOk |-> TRUE]

\* what belongs to one process
Context ==
  [opts |-> opts, inv |-> inv, calls |-> calls, emitted |-> emitted,
   warnings |-> warnings, stdout |-> stdout, runs |-> runs]

SwitchPoints == {"start", "awaitIndex", "awaitWrite", "done"}

InitPar ==
  /\ opts \in ParOptions
  /\ inv = InitInv
  /\ calls = <<>>
  /\ emitted = <<>>
  /\ warnings = <<>>
  /\ stdout = <<>>
  /\ feeds = {}
  /\ honest = TRUE
  /\ lastWrite = NoWrite
  /\ runs = 1
  /\ other = <<[opts |-> ParOther, inv |-> InitInv, calls |-> <<>>, emitted |-> <<>>,
                warnings |-> <<>>, stdout |-> <<>>, runs |-> 2]>>

\* the other process runs on
Switch ==
  /\ other # <<>> /\ inv.pc \in SwitchPoints /\ other[1].inv.pc # "done"
  /\ opts' = other[1].opts
  /\ inv' = other[1].inv
  /\ calls' = other[1].calls
  /\ emitted' = other[1].emitted
  /\ warnings' = other[1].warnings
  /\ stdout' = other[1].stdout
  /\ runs' = other[1].runs
  /\ other' = <<Context>>
  /\ UNCHANGED <<feeds, honest, lastWrite>>

NextPar == Next \/ Switch

SpecPar == InitPar /\ [][NextPar]_vars

(***************************************************************************)
(* Properties                                                              *)
(***************************************************************************)
\* the documented format of a key, a batch id and a reference: 64 hex
\* characters after an optional 0x prefix
WellFormedHex(s) ==
  LET body == IF Len(s) >= 2 /\ s[1] = "0" /\ s[2] = "x"
              THEN SubSeq(s, 3, Len(s)) ELSE s
  IN  /\ Len(body) = 64
      /\ \A i \in 1..Len(body) :
           body[i] \in {"0", "1", "2", "3", "4", "5", "6", "7", "8", "9",
                      "a", "b", "c", "d", "e", "f",
                      "A", "B", "C", "D", "E", "F"}

IsCli == opts.cmd \in {"upload", "feedUpdate"}

\* DeriveProjectKey(reserve key, NormalizeSlug(project name))
ExpectedProjectKey ==
  Str(DerivedKey(hexToBytes(opts.key.s), normalizeProjectSlug(opts.project.s)))

\* the number an option string stands for
ArgNumber(arg) ==
  CASE arg = Str(<<"0">>) -> 0
    [] arg = Str(<<"5">>) -> 5
    [] arg = Str(<<"1", "7">>) -> 17

CallsOfKind(kind) == {i \in 1..Len(calls) : calls[i].kind = kind}

\* C1: every feed-write request carries the reserve key given with --key as
\* the funding key (vaultPrivateKey), and with a project it carries
\* DeriveProjectKey(K, slug) as a separate signer.
C1_ReserveKeyFunds ==
  \A i \in 1..Len(emitted) :
    /\ emitted[i].vaultPrivateKey = opts.key
    /\ Truthy(opts.project) => emitted[i].signerPrivateKey = ExpectedProjectKey

\* C2: the key that signs an emitted feed-write request is the project key
\* when a project name is given, and the reserve key itself otherwise.
C2_SignerSelection ==
  \A i \in 1..Len(emitted) :
    SignerOf(emitted[i]) = IF Truthy(opts.project) THEN ExpectedProjectKey ELSE opts.key

\* C3: the (owner, topic) of every index query is the (owner, topic) of the
\* feed the write request signs for; with a project the owner queried is not
\* the reserve address.
C3_IndexQueryTargetsWrittenFeed ==
  \A i \in CallsOfKind("feedIndex") :
    /\ \A j \in CallsOfKind("feedWrite") :
         calls[i].owner = calls[j].owner /\ calls[i].topic = calls[j].topic
    /\ Truthy(opts.project) => calls[i].owner # OwnerOf(opts.key)

\* C4 as stated: with no explicit index, the index a command writes is always
\* the feed's highest written index + 1, whatever the gateway does.
C4_NeverOverwrites ==
  (lastWrite.run > 0 /\ lastWrite.cmd = "feedUpdate" /\ ~lastWrite.explicit)
    => lastWrite.index = Num(lastWrite.hiBefore + 1)

\* C4 amended: in `feed update` with no explicit index, against a gateway that
\* reports the feed's state as it is, the index written is the highest written
\* index + 1 when the index query is answered, and the fallback 0 when it fails.
C4_FeedUpdateNextIndex ==
  (lastWrite.run > 0 /\ lastWrite.cmd = "feedUpdate" /\ ~lastWrite.explicit)
    => lastWrite.index = IF lastWrite.fetched.t # "null"
                         THEN Num(lastWrite.hiBefore + 1)
                         ELSE Num(DEFAULT_INDEX)

C4_Witness ==
  /\ lastWrite.run = 2 /\ lastWrite.cmd = "feedUpdate"
  /\ lastWrite.hiBefore = 0 /\ lastWrite.index = Num(1)

\* C5: a malformed batch id is rejected before any network call, and the
\* command aborts.
C5_MalformedBatchIdRejected ==
  (IsCli /\ opts.batchId.t = "string" /\ ~WellFormedHex(opts.batchId.s))
    => /\ calls = <<>>
       /\ inv.pc = "done" => inv.exitCode = 1

\* C6: a private key, or in `feed update` a content reference, that fails the
\* format check aborts the command with exit code 1 before any key derivation
\* and any network call, and no feed-write request is emitted.
C6_MalformedKeyOrReferenceAborts ==
  (IsCli /\ (\/ ~WellFormedHex(opts.key.s)
             \/ opts.cmd = "feedUpdate" /\ ~WellFormedHex(opts.reference.s)))
    => /\ calls = <<>> /\ emitted = <<>>
       /\ inv.feedOwnerKey = Undef /\ inv.signerPrivateKey = Undef
       /\ inv.pc \in {"start", "done"}
       /\ inv.pc = "done" => inv.exitCode = 1

C6_Witness ==
  /\ opts.cmd = "feedUpdate" /\ opts.key = Str(SubSeq(KeyA, 2, HexChars))
  /\ opts.reference = Str(RefC) /\ Truthy(opts.project)
  /\ inv.pc = "done" /\ inv.exitCode = 1

\* C7: an explicit depth is used verbatim and no depth query is made; otherwise
\* the depth ResolveDepth returned is used, 0 included, and the default 20
\* exactly when ResolveDepth returned Absent.
C7_DepthSelection ==
  IsCli =>
    LET used == {emitted[i].depth : i \in 1..Len(emitted)}
                  \cup {calls[i].depth : i \in CallsOfKind("upload")}
    IN IF Truthy(opts.depth)
       THEN /\ CallsOfKind("depth") = {}
            /\ \A d \in used : d = Num(ArgNumber(opts.depth))
       ELSE \A d \in used :
              /\ inv.depthQueried
              /\ d = IF inv.fetchedDepth.t = "null" THEN Num(DEFAULT_DEPTH)
                     ELSE inv.fetchedDepth

C7_Witness ==
  /\ opts.cmd = "upload" /\ ~Truthy(opts.depth)
  /\ inv.fetchedDepth = Num(0)
  /\ emitted # <<>> /\ emitted[1].depth = Num(0)

\* C8: an explicit feed index, 0 included, is used verbatim and no index query
\* is made; otherwise the value ResolveNextIndex returned is used, and 0 when
\* it returned Absent.
C8_IndexSelection ==
  IsCli =>
    IF Truthy(opts.index)
    THEN /\ CallsOfKind("feedIndex") = {}
         /\ \A i \in 1..Len(emitted) : emitted[i].feedIndex = Num(ArgNumber(opts.index))
    ELSE \A i \in 1..Len(emitted) :
           /\ inv.indexQueried
           /\ emitted[i].feedIndex = IF inv.fetchedIndex.t = "null" THEN Num(DEFAULT_INDEX)
                                     ELSE inv.fetchedIndex

C8_Witness ==
  /\ opts.cmd = "feedUpdate" /\ opts.index = Str(<<"0">>)
  /\ emitted # <<>> /\ emitted[1].feedIndex = Num(0)
  /\ CallsOfKind("feedIndex") = {}

\* C9: every depth query goes to the RPC endpoint, never to the gateway URL.
C9_DepthQueryUsesRpc ==
  \A i \in CallsOfKind("depth") :
    /\ calls[i].url \in {DEFAULT_GNOSIS_RPC_URL, OtherRpc}
    /\ calls[i].url # OrElse(opts.gateway, DEFAULT_GATEWAY_URL)

\* C10: on HTTP 404 ResolveNextIndex returns 0, whatever headers or body the
\* response carries, and this is a resolved value: no fallback warning.
C10_NotFoundMeansZero ==
  inv.indexResponse.status = HTTP_NOT_FOUND
    => /\ inv.fetchedIndex = Num(0)
       /\ inv.index = Num(0)
       /\ \A i \in 1..Len(warnings) : warnings[i] # IndexWarning

C10_Witness ==
  /\ inv.indexResponse = Response(HTTP_NOT_FOUND, Str(<<"5">>), Str(<<"4">>), Num(5), Num(4))
  /\ inv.fetchedIndex = Num(0)
  /\ ~opts.quiet /\ emitted # <<>> /\ emitted[1].feedIndex = Num(0)

(***************************************************************************)
(* The index fields of a gateway response, as the specification reads them *)
(***************************************************************************)
\* a hex-encoded index: one or two hex digits
IsHexIndex(v) ==
  /\ v.t = "string" /\ Len(v.s) \in {1, 2}
  /\ \A i \in 1..Len(v.s) : v.s[i] \in DOMAIN HexTable

\* an index field that is present and well formed: a hex string or a number
IsIndexField(v) == IsHexIndex(v) \/ (v.t = "number" /\ v.n >= 0)

\* the index a well-formed field stands for
FieldValue(v) ==
  IF v.t = "number" THEN v.n
  ELSE IF Len(v.s) = 1 THEN HexTable[v.s[1]]
  ELSE 16 * HexTable[v.s[1]] + HexTable[v.s[2]]

\* C11: on a 200 response that carries a next-index field, in the header or,
\* with no such header, in the body, ResolveNextIndex returns that value,
\* base-16 decoded, also when a current-index field is present.
C11_NextIndexFieldPreferred ==
  LET r == inv.indexResponse
  IN  r.status = HTTP_OK =>
        /\ IsIndexField(r.hNext) => inv.fetchedIndex = Num(FieldValue(r.hNext))
        /\ (r.hNext = Undef /\ IsIndexField(r.bNext))
             => inv.fetchedIndex = Num(FieldValue(r.bNext))

C11_Witness ==
  /\ inv.indexResponse = Response(HTTP_OK, Str(<<"a">>), Str(<<"4">>), Undef, Undef)
  /\ inv.fetchedIndex = Num(10)
  /\ emitted # <<>> /\ emitted[1].feedIndex = Num(10)

\* C12: on a 200 response that carries only a current-index field,
\* ResolveNextIndex returns the current index + 1, also for a current index
\* of 0, and never the current index itself.
C12_CurrentIndexPlusOne ==
  LET r == inv.indexResponse
  IN  (r.status = HTTP_OK /\ r.hNext = Undef /\ r.bNext = Undef) =>
        /\ IsIndexField(r.hCur) => inv.fetchedIndex = Num(FieldValue(r.hCur) + 1)
        /\ (r.hCur = Undef /\ IsIndexField(r.bCur))
             => inv.fetchedIndex = Num(FieldValue(r.bCur) + 1)

C12_Witness ==
  /\ inv.indexResponse = Response(HTTP_OK, Undef, Undef, Undef, Num(0))
  /\ inv.fetchedIndex = Num(1)
  /\ emitted # <<>> /\ emitted[1].feedIndex = Num(1)

\* a response that gives no index: a transport failure, a status other than
\* 200 and 404, or a 200 with neither index field
Unanswered(r) ==
  \/ r.status \notin {HTTP_OK, HTTP_NOT_FOUND}
  \/ /\ r.status = HTTP_OK
     /\ r.hNext = Undef /\ r.bNext = Undef /\ r.hCur = Undef /\ r.bCur = Undef

\* C13: ResolveNextIndex never throws. The step that resolves the index never
\* ends the command: it leads to the feed write; a response that gives no
\* index yields Absent (null) and the write is made with the fallback 0.
C13_ResolveNextIndexNeverThrows ==
  /\ [](IsCli /\ inv.indexQueried /\ inv.fetchedIndex = Null =>
          /\ emitted # <<>> => emitted[1].feedIndex = Num(DEFAULT_INDEX)
          /\ (opts.cmd = "feedUpdate" /\ inv.pc \in {"awaitWrite", "done"})
               => emitted # <<>>)
  /\ [][/\ (inv.pc = "index" /\ inv' # inv) =>
             (inv'.pc \in {"awaitIndex", "write"} /\ inv'.exitCode = RUNNING)
        /\ (inv.pc = "awaitIndex" /\ inv' # inv) =>
             /\ inv'.pc = "write" /\ inv'.exitCode = RUNNING
             /\ Unanswered(inv'.indexResponse) =>
                  (inv'.fetchedIndex = Null /\ inv'.index = Num(DEFAULT_INDEX))]_vars

C13_Witness ==
  /\ opts.cmd = "feedUpdate" /\ inv.indexResponse.status = 500
  /\ inv.indexResponse.hNext = Str(<<"5">>)
  /\ inv.fetchedIndex = Null
  /\ inv.pc = "done" /\ inv.exitCode = 0
  /\ emitted # <<>> /\ emitted[1].feedIndex = Num(DEFAULT_INDEX)

\* C14: ResolveDepth never throws. A failed depth call yields Absent (null);
\* the step that resolves the depth never ends the command, and a command
\* without explicit depth goes on to its write with a numeric depth.
C14_ResolveDepthNeverThrows ==
  /\ [](IsCli /\ inv.depthQueried /\ inv.pc \notin {"depth", "awaitDepth"} =>
          /\ inv.fetchedDepth.t \in {"null", "number"}
          /\ inv.depth.t = "number"
          /\ inv.fetchedDepth = Null => inv.depth = Num(DEFAULT_DEPTH)
          /\ \A i \in 1..Len(emitted) : emitted[i].depth = inv.depth
          /\ (opts.cmd = "upload" /\ inv.pc # "upload")
               => \E i \in CallsOfKind("upload") : calls[i].depth = inv.depth
          /\ (opts.cmd = "feedUpdate" /\ inv.pc \in {"awaitWrite", "done"})
               => emitted # <<>>)
  /\ [][(inv.pc \in {"depth", "awaitDepth"} /\ inv' # inv) =>
          (inv'.pc \in {"awaitDepth", "upload", "index"} /\ inv'.exitCode = RUNNING)]_vars

C14_Witness ==
  /\ opts.cmd = "feedUpdate" /\ CallsOfKind("depth") # {}
  /\ inv.fetchedDepth = Null
  /\ inv.pc = "done" /\ inv.exitCode = 0
  /\ emitted # <<>> /\ emitted[1].depth = Num(DEFAULT_DEPTH)

\* C15: whenever the fallback depth 20 or the fallback index 0 replaces an
\* unresolved value, a warning is recorded for the invocation, in every
\* output mode. Stated for well-formed options.
C15_FallbackWarns ==
  (IsCli /\ opts.batchId.t = "string" /\ WellFormedHex(opts.batchId.s)) =>
    /\ (inv.depthQueried /\ inv.fetchedDepth = Null)
         => \E i \in 1..Len(warnings) : warnings[i] = DepthWarning
    /\ (inv.indexQueried /\ inv.fetchedIndex = Null)
         => \E i \in 1..Len(warnings) : warnings[i] = IndexWarning

\* the running invocation has just overwritten an index of its feed
Overwrote ==
  /\ lastWrite.run = runs /\ lastWrite.cmd = "feedUpdate" /\ ~lastWrite.explicit
  /\ lastWrite.index.t = "number" /\ lastWrite.hiBefore >= lastWrite.index.n

\* C16: nothing keeps two writers apart. A `feed update` emits its write at
\* the index it resolved without another look at the feed, and a write that
\* lands on an index already written replaces what was there: the writer
\* ends with exit code 0 and the feed holds the later content only.
C16_NoMutualExclusion ==
  /\ []((Overwrote /\ inv.pc = "done") =>
          /\ inv.exitCode = 0
          /\ {f.reference : f \in {g \in feeds : /\ g.owner = lastWrite.owner
                                                /\ g.topic = lastWrite.topic
                                                /\ g.index = lastWrite.index}}
               = {opts.reference})
  /\ [][(opts.cmd = "feedUpdate" /\ inv.pc = "write" /\ other' = other /\ inv' # inv) =>
          /\ inv'.pc = "awaitWrite"
          /\ Len(emitted') = Len(emitted) + 1
          /\ emitted'[Len(emitted')].feedIndex = inv.index]_vars

\* both invocations resolved the same next index from the gateway, both
\* wrote it and ended with exit code 0, and the later content is what is left
C16_Witness ==
  /\ other # <<>>
  /\ opts.cmd = "feedUpdate" /\ other[1].opts.cmd = "feedUpdate"
  /\ inv.pc = "done" /\ inv.exitCode = 0
  /\ other[1].inv.pc = "done" /\ other[1].inv.exitCode = 0
  /\ inv.fetchedIndex.t = "number" /\ other[1].inv.fetchedIndex = inv.fetchedIndex
  /\ emitted # <<>> /\ other[1].emitted # <<>>
  /\ emitted[1].feedIndex = inv.fetchedIndex
  /\ other[1].emitted[1].feedIndex = inv.fetchedIndex
  /\ calls[Len(calls)].owner = other[1].calls[Len(other[1].calls)].owner
  /\ emitted[1].topic = other[1].emitted[1].topic
  /\ opts.reference # other[1].opts.reference
  /\ Overwrote
  /\ feeds = {[owner |-> lastWrite.owner, topic |-> lastWrite.topic,
               index |-> lastWrite.index, reference |-> opts.reference]}

\* a project name with no letter and no digit: its slug is empty
NoSlug(name) ==
  \A i \in 1..Len(name) :
    name[i] \notin {"0", "1", "2", "3", "4", "5", "6", "7", "8", "9"}
                   \cup {LowerAlpha[k] : k \in 1..26} \cup {UpperAlpha[k] : k \in 1..26}

\* the command derives a project key
DerivesKey == opts.cmd = "feedUpdate" \/ (opts.cmd = "upload" /\ opts.feed)

\* C17: when the normalization of the project name or the derivation of the
\* project key fails, no feed-write request is emitted and the command ends
\* with exit code 1; in `feed update` no depth or index query has been issued.
C17_ProjectFailureAborts ==
  /\ []((DerivesKey /\ Truthy(opts.project)) =>
          /\ NoSlug(opts.project.s) =>
               /\ emitted = <<>> /\ CallsOfKind("feedWrite") = {}
               /\ inv.pc = "done" => inv.exitCode = 1
               /\ opts.cmd = "feedUpdate" => calls = <<>>
          /\ (opts.cmd = "feedUpdate" /\ inv.feedOwnerKey = Undef) => calls = <<>>
          /\ inv.feedOwnerKey = Undef => emitted = <<>>
          /\ inv.feedOwnerKey # Undef => inv.feedOwnerKey = ExpectedProjectKey)
  /\ [][(DerivesKey /\ Truthy(opts.project) /\ inv.pc = "derive" /\ inv' # inv) =>
          \/ /\ inv'.pc = "done" /\ inv'.exitCode = 1
             /\ emitted' = emitted /\ calls' = calls
          \/ /\ inv'.pc \in {"depth", "index"}
             /\ inv'.feedOwnerKey = ExpectedProjectKey]_vars

C17_Witness ==
  /\ opts.cmd = "feedUpdate" /\ opts.project = Str(<<" ", " ">>)
  /\ WellFormedHex(opts.key.s) /\ WellFormedHex(opts.reference.s)
  /\ opts.batchId = Str(BatchB) /\ ~Truthy(opts.topic)
  /\ inv.pc = "done" /\ inv.exitCode = 1
  /\ calls = <<>> /\ emitted = <<>>

\* C18: a successful `upload --feed --output json` prints a JSON object that
\* holds the feed URL (feedUrl) besides reference, url and cid.
C18_JsonOutputHasFeedUrl ==
  (opts.cmd = "upload" /\ opts.feed /\ opts.output = "json"
     /\ inv.pc = "done" /\ inv.exitCode = 0)
    => \E i \in 1..Len(stdout) :
         /\ stdout[i].kind = "json"
         /\ {"reference", "url", "cid", "feedUrl"} \subseteq stdout[i].fields

\* a key of 64 hex characters that is a valid secp256k1 scalar
ValidKeyText(key) == WellFormedHex(key) /\ ValidScalar(hexToBytes(key))

\* C19: for a valid 32-byte private key getAddressFromPrivateKey gives an
\* address of exactly 20 bytes, and the same address each time it is applied,
\* whether the key is written with 0x or without.
C19_AddressOfDeterministic ==
  /\ []((opts.cmd = "address" /\ ValidKeyText(opts.key.s)) =>
          /\ inv.exitCode # 1
          /\ inv.pc # "start" => Len(inv.owner) = 20)
  /\ [][(opts.cmd = "address" /\ inv.pc = "again" /\ inv' # inv) =>
          (inv'.pc = "done" /\ inv'.owner = inv.owner)]_vars

C19_Witness ==
  /\ opts.cmd = "address" /\ opts.key = Str(<<"0", "x">> \o Rep("a", HexChars))
  /\ inv.pc = "done" /\ inv.exitCode = 0 /\ Len(inv.owner) = 20

\* C20: within one invocation at most one depth query and at most one
\* feed-index query are issued; the step that takes the answer of a query
\* issues nothing, leaves the query behind, and on a failed query puts the
\* fallback value in place.
C20_QueriesAtMostOnce ==
  /\ [](Cardinality(CallsOfKind("depth")) <= 1 /\ Cardinality(CallsOfKind("feedIndex")) <= 1)
  /\ [][(IsCli /\ inv.pc = "awaitDepth" /\ inv' # inv) =>
          /\ calls' = calls
          /\ inv'.pc \notin {"depth", "awaitDepth"}
          /\ inv'.fetchedDepth = Null => inv'.depth = Num(20)]_vars
  /\ [][(IsCli /\ inv.pc = "awaitIndex" /\ inv' # inv) =>
          /\ calls' = calls
          /\ inv'.pc \notin {"depth", "awaitDepth", "index", "awaitIndex"}
          /\ inv'.fetchedIndex = Null => inv'.index = Num(0)]_vars

C20_Witness ==
  /\ IsCli /\ inv.pc = "done" /\ inv.exitCode = 0
  /\ Cardinality(CallsOfKind("depth")) = 1 /\ inv.fetchedDepth = Null
  /\ Cardinality(CallsOfKind("feedIndex")) = 1 /\ inv.fetchedIndex = Null
  /\ Len(emitted) = 1
  /\ emitted[1].depth = Num(20) /\ emitted[1].feedIndex = Num(0)

\* the depth and the index as the two resolutions fix them
ResolvedDepth ==
  IF opts.depth # Undef THEN Num(ArgNumber(opts.depth))
  ELSE IF inv.fetchedDepth.t = "number" THEN inv.fetchedDepth ELSE Num(20)

ResolvedIndex ==
  IF opts.index # Undef THEN Num(ArgNumber(opts.index))
  ELSE IF inv.fetchedIndex.t \in {"null", "undefined"} THEN Num(0) ELSE inv.fetchedIndex

\* both resolutions are over: a value was given, or the query was answered
\* or fell back
BothResolved ==
  /\ opts.depth # Undef \/ (inv.depthQueried /\ inv.fetchedDepth # Undef)
  /\ opts.index # Undef \/ (inv.indexQueried /\ inv.fetchedIndex # Undef)
  /\ inv.pc \notin {"start", "topic", "derive", "depth", "awaitDepth", "index", "awaitIndex"}

\* C21: a successful `feed update` emits exactly one feed-write request; the
\* request is emitted only after the depth and the index are both resolved,
\* and it carries the depth and the index those resolutions fixed.
C21_OneWriteAfterBothResolutions ==
  /\ [](opts.cmd = "feedUpdate" =>
          /\ Len(emitted) <= 1
          /\ (inv.pc = "done" /\ inv.exitCode = 0) => Len(emitted) = 1
          /\ Len(emitted) = 1 =>
                /\ BothResolved
                /\ emitted[1].depth = ResolvedDepth
                /\ emitted[1].feedIndex = ResolvedIndex)
  /\ [][(opts.cmd = "feedUpdate" /\ emitted' # emitted) =>
          (BothResolved /\ inv.depth = ResolvedDepth /\ inv.index = ResolvedIndex)]_vars

C21_Witness ==
  /\ opts.cmd = "feedUpdate" /\ inv.pc = "done" /\ inv.exitCode = 0
  /\ opts.depth = Undef /\ opts.index = Undef
  /\ inv.fetchedDepth = Num(17) /\ inv.fetchedIndex = Num(5)
  /\ Len(emitted) = 1
  /\ emitted[1].depth = Num(17) /\ emitted[1].feedIndex = Num(5)

\* a non-negative integer
IsNatural(v) == v.t = "number" /\ v.n \in Nat

\* C22: whatever the gateway answers, the value fetchNextFeedIndex returns is
\* Absent (null) or a non-negative integer, and so the feed index of every
\* emitted write request is a non-negative integer.
C22_FetchedIndexIsNatural ==
  (IsCli /\ inv.indexResponse # NoResponse) =>
    /\ inv.fetchedIndex = Null \/ IsNatural(inv.fetchedIndex)
    /\ \A i \in 1..Len(emitted) : IsNatural(emitted[i].feedIndex)

\* the topics that have left the program: in feed-index queries and in
\* feed-write requests
TopicsSent ==
  {calls[i].topic : i \in CallsOfKind("feedIndex")} \cup
  {emitted[i].topic : i \in 1..Len(emitted)}

\* C23: the topic of every feed-index query and of every feed-write request
\* is exactly 32 bytes: 32 zero bytes when no topic is supplied, the bytes
\* decoded from the supplied hex otherwise; a supplied topic that is not 64
\* hex characters reaches neither the gateway nor a write request.
C23_TopicIs32Bytes ==
  /\ \A t \in TopicsSent :
       /\ Len(t) = 32
       /\ opts.topic = Undef => t = [i \in 1..32 |-> 0]
       /\ opts.topic # Undef => t = hexToBytes(opts.topic.s)
  /\ (opts.topic # Undef /\ ~WellFormedHex(opts.topic.s)) => TopicsSent = {}

\* a string of hex digits of even length, after an optional 0x
HexDigitsOf(h) ==
  IF Len(h) >= 2 /\ h[1] = "0" /\ h[2] = "x" THEN SubSeq(h, 3, Len(h)) ELSE h

EvenHex(h) ==
  /\ Len(HexDigitsOf(h)) % 2 = 0
  /\ \A i \in 1..Len(HexDigitsOf(h)) :
       HexDigitsOf(h)[i] \in {"0", "1", "2", "3", "4", "5", "6", "7", "8", "9",
                              "a", "b", "c", "d", "e", "f",
                              "A", "B", "C", "D", "E", "F"}

LowerCased(c) ==
  CASE c = "A" -> "a" [] c = "B" -> "b" [] c = "C" -> "c"
    [] c = "D" -> "d" [] c = "E" -> "e" [] c = "F" -> "f"
    [] OTHER -> c

\* C24: hex and bytes round-trip. For an even-length string h of hex digits,
\* with or without 0x, bytesToHex(hexToBytes(h)) is h in lower case without
\* the prefix; bytesToHex gives exactly two lower-case hex digits for each
\* byte; and hexToBytes(bytesToHex(b)) = b for the byte array b.
C24_HexRoundTrip ==
  (opts.cmd = "hex" /\ EvenHex(opts.key.s)) =>
    /\ inv.exitCode # 1
    /\ inv.pc \in {"decode", "done"} =>
          /\ inv.hex = [i \in 1..Len(HexDigitsOf(opts.key.s)) |->
                          LowerCased(HexDigitsOf(opts.key.s)[i])]
          /\ Len(inv.hex) = 2 * Len(inv.bytes)
          /\ \A i \in 1..Len(inv.hex) :
               inv.hex[i] \in {"0", "1", "2", "3", "4", "5", "6", "7", "8", "9",
                              "a", "b", "c", "d", "e", "f"}
    /\ inv.pc = "done" => inv.decoded = inv.bytes

C24_Witness ==
  /\ opts.cmd = "hex" /\ opts.key = Str(<<"0", "x", "0", "9", "F", "a">>)
  /\ inv.pc = "done"
  /\ inv.bytes = <<9, 250>> /\ inv.hex = <<"0", "9", "f", "a">>
  /\ inv.decoded = <<9, 250>>

====
